---- MODULE Spec2Model ----
(***************************************************************************)
(* A model of the GreenTok prompt compressor: the text normalizer, the     *)
(* filler remover, the extractive selector with its cached sentence model, *)
(* the aggressive fallback, the validator and the smart reducer.           *)
(*                                                                         *)
(* A text is a sequence of one-character strings.  Every regular           *)
(* expression of the source is an operator that computes what re.sub,      *)
(* re.split or re.findall compute on such a sequence.                      *)
(***************************************************************************)
EXTENDS Integers, Sequences, FiniteSets, TLC

(***************************************************************************)
(* Characters and character classes (Python's re / str on ASCII).          *)
(***************************************************************************)
Lowers == << "a", "b", "c", "d", "e", "f", "g", "h", "i", "j", "k", "l", "m",
             "n", "o", "p", "q", "r", "s", "t", "u", "v", "w", "x", "y", "z" >>

Uppers == << "A", "B", "C", "D", "E", "F", "G", "H", "I", "J", "K", "L", "M",
             "N", "O", "P", "Q", "R", "S", "T", "U", "V", "W", "X", "Y", "Z" >>

LowerSet == { Lowers[i] : i \in 1..26 }

UpperSet == { Uppers[i] : i \in 1..26 }

DigitSet == { "0", "1", "2", "3", "4", "5", "6", "7", "8", "9" }

\* \s
IsSpace(c) == c \in { " ", "\n", "\t", "\r" }

\* \w
IsWordCh(c) == c \in LowerSet \cup UpperSet \cup DigitSet \cup { "_" }

IsLetter(c) == c \in LowerSet \cup UpperSet

\* [.!?]
TermPunct == { ".", "!", "?" }

\* [.,!?:;]
Punct == { ".", ",", "!", "?", ":", ";" }

LowerCh(c) == IF c \in UpperSet THEN Lowers[CHOOSE i \in 1..26 : Uppers[i] = c] ELSE c

UpperCh(c) == IF c \in LowerSet THEN Uppers[CHOOSE i \in 1..26 : Lowers[i] = c] ELSE c

\* str.lower()
Lower(s) == [ i \in 1..Len(s) |-> LowerCh(s[i]) ]

(***************************************************************************)
(* Sequence helpers.                                                       *)
(***************************************************************************)
Drop(s, n) == SubSeq(s, n + 1, Len(s))

Take(s, n) == SubSeq(s, 1, n)

\* The first index >= i whose character is not in set S (Len(s)+1 if none).
RECURSIVE SkipIn(_, _, _)
SkipIn(s, i, S) == IF i <= Len(s) /\ s[i] \in S THEN SkipIn(s, i + 1, S) ELSE i

\* The first index >= i whose character is not whitespace.
RECURSIVE SkipSpace(_, _)
SkipSpace(s, i) == IF i <= Len(s) /\ IsSpace(s[i]) THEN SkipSpace(s, i + 1) ELSE i

\* The first index >= i whose character is not a \w character.
RECURSIVE SkipWord(_, _)
SkipWord(s, i) == IF i <= Len(s) /\ IsWordCh(s[i]) THEN SkipWord(s, i + 1) ELSE i

\* The last index <= i whose character is not in S (0 if none).
RECURSIVE SkipBackIn(_, _, _)
SkipBackIn(s, i, S) == IF i >= 1 /\ s[i] \in S THEN SkipBackIn(s, i - 1, S) ELSE i

\* The concatenation of pieces[lo..hi], halving the range: the depth of the
\* recursion is logarithmic in the number of pieces.
RECURSIVE FlattenRange(_, _, _)
FlattenRange(pieces, lo, hi) ==
    IF lo > hi THEN << >>
    ELSE IF lo = hi THEN pieces[lo]
    ELSE LET mid == (lo + hi) \div 2
         IN  FlattenRange(pieces, lo, mid) \o FlattenRange(pieces, mid + 1, hi)

Flatten(pieces) == FlattenRange(pieces, 1, Len(pieces))

\* The least member of a non-empty set of integers.
MinOf(S) == CHOOSE x \in S : \A y \in S : x <= y

WhiteSpace == { " ", "\n", "\t", "\r" }

\* str.lstrip(chars), str.rstrip(chars), str.strip(chars)
LStripSet(s, S) == Drop(s, SkipIn(s, 1, S) - 1)

RStripSet(s, S) == Take(s, SkipBackIn(s, Len(s), S))

StripSet(s, S) == RStripSet(LStripSet(s, S), S)

\* str.strip(), str.rstrip()
Strip(s) == StripSet(s, WhiteSpace)

RStrip(s) == RStripSet(s, WhiteSpace)

\* p matches s at index i, ignoring case (p is given in lower case).
MatchAtCI(s, i, p) ==
    /\ i + Len(p) - 1 <= Len(s)
    /\ \A k \in 1..Len(p) : LowerCh(s[i + k - 1]) = p[k]

\* re.sub("^" + p, "", s, flags=re.I) for a literal p.
RemovePrefixCI(s, p) == IF MatchAtCI(s, 1, p) THEN Drop(s, Len(p)) ELSE s

\* re.sub(p, "", s, flags=re.I) for a non-empty literal p: every non-overlapping
\* occurrence, leftmost first, is removed.
RECURSIVE RemoveAllCIFrom(_, _, _)
RemoveAllCIFrom(s, i, p) ==
    LET hits == { j \in i..Len(s) : MatchAtCI(s, j, p) }
    IN  IF hits = {} THEN SubSeq(s, i, Len(s))
        ELSE SubSeq(s, i, MinOf(hits) - 1) \o RemoveAllCIFrom(s, MinOf(hits) + Len(p), p)

RemoveAllCI(s, p) == RemoveAllCIFrom(s, 1, p)

(***************************************************************************)
(* The normalizer, tidy_text.                                              *)
(***************************************************************************)
\* re.sub(r"[\.!?]{2,}", lambda m: m.group(0)[0], s): of a run of two or
\* more of . ! ? only the first character stays.
CollapseTerminal(s) ==
    Flatten([ i \in 1..Len(s) |->
                IF s[i] \in TermPunct /\ i > 1 /\ s[i - 1] \in TermPunct
                THEN << >> ELSE << s[i] >> ])

\* re.sub(r"^[^\w]+", '', s)
StripLeadingNonWord(s) ==
    LET RECURSIVE FirstWord(_)
        FirstWord(i) == IF i <= Len(s) /\ ~IsWordCh(s[i]) THEN FirstWord(i + 1) ELSE i
    IN  Drop(s, FirstWord(1) - 1)

\* re.sub(r"\s+([\.,!?:;])", r"\1", s): a whitespace run that a punctuation
\* character follows is removed.
NoSpaceBeforePunct(s) ==
    Flatten([ i \in 1..Len(s) |->
                IF /\ IsSpace(s[i])
                   /\ SkipSpace(s, i) <= Len(s)
                   /\ s[SkipSpace(s, i)] \in Punct
                THEN << >> ELSE << s[i] >> ])

\* re.sub(r"([\.,!?:;])([^\s\.,!?:;])", r"\1 \2", s)
SpaceAfterPunct(s) ==
    Flatten([ i \in 1..Len(s) |->
                IF /\ s[i] \in Punct
                   /\ i + 1 <= Len(s)
                   /\ ~IsSpace(s[i + 1])
                   /\ s[i + 1] \notin Punct
                THEN << s[i], " " >> ELSE << s[i] >> ])

\* The leading auxiliary phrases of the grammar cleanup, in the order tried.
AuxPhrases ==
    << << "y", "o", "u", " ", "c", "o", "u", "l", "d", " " >>,
       << "y", "o", "u", " ", "w", "o", "u", "l", "d", " " >>,
       << "y", "o", "u", " ", "c", "a", "n", " " >>,
       << "y", "o", "u", " ", "s", "h", "o", "u", "l", "d", " " >>,
       << "i", " ", "n", "e", "e", "d", " ", "t", "o", " " >>,
       << "i", " ", "w", "a", "n", "t", " ", "t", "o", " " >> >>

\* The six re.sub(r"^<phrase> ", "", s, flags=re.I), one after the other.
RECURSIVE GrammarCleanupFrom(_, _)
GrammarCleanupFrom(s, k) ==
    IF k > Len(AuxPhrases) THEN s
    ELSE GrammarCleanupFrom(RemovePrefixCI(s, AuxPhrases[k]), k + 1)

GrammarCleanup(s) == GrammarCleanupFrom(s, 1)

\* if s and s[0].islower(): s = s[0].upper() + s[1:]
CapitalizeIfLower(s) ==
    IF Len(s) > 0 /\ s[1] \in LowerSet THEN << UpperCh(s[1]) >> \o Tail(s) ELSE s

\* tidy_text of the current pipeline (prompt_compressor/main.py).
tidy_text(s) ==
    IF s = << >> THEN s
    ELSE RStrip(CapitalizeIfLower(GrammarCleanup(SpaceAfterPunct(
             NoSpaceBeforePunct(StripLeadingNonWord(CollapseTerminal(Strip(s))))))))

\* tidy_text of the first pipeline (main.py): no grammar cleanup, no capital.
tidy_text_legacy(s) ==
    IF s = << >> THEN s
    ELSE RStrip(SpaceAfterPunct(
             NoSpaceBeforePunct(StripLeadingNonWord(CollapseTerminal(Strip(s))))))

(***************************************************************************)
(* Token counting.  token_count is len(enc.encode(text)) for tiktoken's    *)
(* cl100k_base encoding.  The encoding first cuts the text into pieces     *)
(* with the pattern                                                        *)
(*   (?i:'s|'t|'re|'ve|'m|'ll|'d) | [^\r\n\p{L}\p{N}]?\p{L}+ | \p{N}{1,3}  *)
(*   |  ?[^\s\p{L}\p{N}]+[\r\n]* | \s*[\r\n]+ | \s+(?!\S) | \s+            *)
(* and byte-pair merges never cross a piece.  The model counts the pieces: *)
(* the token count of every text whose pieces are vocabulary entries, as   *)
(* single characters and short words are.                                  *)
(***************************************************************************)
NewLines == { "\n", "\r" }

\* The contraction suffixes, in the order the pattern tries them.
Contractions ==
    << << "'", "s" >>, << "'", "t" >>, << "'", "r", "e" >>, << "'", "v", "e" >>,
       << "'", "m" >>, << "'", "l", "l" >>, << "'", "d" >> >>

\* [^\s\p{L}\p{N}]
IsSymbol(c) == ~IsSpace(c) /\ ~IsLetter(c) /\ c \notin DigitSet

RECURSIVE SkipLetters(_, _)
SkipLetters(s, i) == IF i <= Len(s) /\ IsLetter(s[i]) THEN SkipLetters(s, i + 1) ELSE i

RECURSIVE SkipSymbols(_, _)
SkipSymbols(s, i) == IF i <= Len(s) /\ IsSymbol(s[i]) THEN SkipSymbols(s, i + 1) ELSE i

\* The last newline of the whitespace run s[i..j-1], or 0.
LastNewLine(s, i, j) ==
    LET nl == { k \in i..(j - 1) : s[k] \in NewLines }
    IN  IF nl = {} THEN 0 ELSE CHOOSE k \in nl : \A m \in nl : m <= k

\* The index after the piece that starts at i (i <= Len(s)).
PieceEnd(s, i) ==
    LET n == Len(s)
        contr == { k \in 1..Len(Contractions) : MatchAtCI(s, i, Contractions[k]) }
        ws == SkipSpace(s, i)
    IN  IF contr # {}
        THEN i + Len(Contractions[MinOf(contr)])
        ELSE IF /\ s[i] \notin NewLines /\ ~IsLetter(s[i]) /\ s[i] \notin DigitSet
                /\ i + 1 <= n /\ IsLetter(s[i + 1])
        THEN SkipLetters(s, i + 1)
        ELSE IF IsLetter(s[i])
        THEN SkipLetters(s, i)
        ELSE IF s[i] \in DigitSet
        THEN IF i + 1 <= n /\ s[i + 1] \in DigitSet
             THEN IF i + 2 <= n /\ s[i + 2] \in DigitSet THEN i + 3 ELSE i + 2
             ELSE i + 1
        ELSE IF s[i] = " " /\ i + 1 <= n /\ IsSymbol(s[i + 1])
        THEN SkipIn(s, SkipSymbols(s, i + 1), NewLines)
        ELSE IF IsSymbol(s[i])
        THEN SkipIn(s, SkipSymbols(s, i), NewLines)
        ELSE \* s[i] is whitespace: s[i..ws-1] is the whitespace run
             IF LastNewLine(s, i, ws) # 0 THEN LastNewLine(s, i, ws) + 1
             ELSE IF ws > n THEN ws
             ELSE IF ws - i >= 2 THEN ws - 1
             ELSE ws

RECURSIVE CountPieces(_, _)
CountPieces(s, i) == IF i > Len(s) THEN 0 ELSE 1 + CountPieces(s, PieceEnd(s, i))

token_count(text) == IF text = << >> THEN 0 ELSE CountPieces(text, 1)

(***************************************************************************)
(* The filler remover, optimize_rule_based.                                *)
(*                                                                         *)
(* A configured pattern is a record [re, lit]: re = "lit" is a regular     *)
(* expression that is a literal text (lit), re = "invalid" one that        *)
(* re.compile rejects (re.error), re = "nonstring" a list item that is not *)
(* a string (re.sub raises TypeError on it).                               *)
(***************************************************************************)
Lit(t) == [ re |-> "lit", lit |-> t ]

InvalidPattern == [ re |-> "invalid", lit |-> << >> ]

NonStringItem == [ re |-> "nonstring", lit |-> << >> ]

\* re.sub(pat, '', s, flags=re.I) for a valid pattern.
SubPattern(pat, s) == IF pat.lit = << >> THEN s ELSE RemoveAllCI(s, Lower(pat.lit))

\* The alternatives of the leading politeness preamble.
Preambles ==
    << << "c", "a", "n", " ", "y", "o", "u" >>,
       << "c", "o", "u", "l", "d", " ", "y", "o", "u" >>,
       << "w", "o", "u", "l", "d", " ", "y", "o", "u" >>,
       << "p", "l", "e", "a", "s", "e" >>,
       << "k", "i", "n", "d", "l", "y" >> >>

\* A variant that leaves the leading preamble in place.
KeepPreamble(s) == s

\* re.sub(r'^(can you|could you|would you|please|kindly)[:,\s]*', '', s, flags=re.I)
StripPreamble(s) ==
    LET hit == { k \in 1..Len(Preambles) : MatchAtCI(s, 1, Preambles[k]) }
    IN  IF hit = {} THEN s
        ELSE Drop(s, SkipIn(s, Len(Preambles[MinOf(hit)]) + 1,
                            WhiteSpace \cup { ":", "," }) - 1)

\* for pat in patterns + words: try: s = re.sub(pat, '', s, flags=re.I)
\*                              except re.error: continue
\* A variant in which the first invalid pattern ends the loop.
RECURSIVE StopAtInvalidPattern(_, _)
StopAtInvalidPattern(pats, s) ==
    IF pats = << >> THEN s
    ELSE IF Head(pats).re = "lit"
    THEN StopAtInvalidPattern(Tail(pats), SubPattern(Head(pats), s))
    ELSE s

RECURSIVE ApplyPatterns(_, _)
ApplyPatterns(pats, s) ==
    IF pats = << >> THEN s
    ELSE ApplyPatterns(Tail(pats),
                       IF Head(pats).re = "lit" THEN SubPattern(Head(pats), s) ELSE s)

\* re.sub(r'\s+', ' ', s)
CollapseSpace(s) ==
    Flatten([ i \in 1..Len(s) |->
                IF ~IsSpace(s[i]) THEN << s[i] >>
                ELSE IF i > 1 /\ IsSpace(s[i - 1]) THEN << >> ELSE << " " >> ])

optimize_rule_based(text, patterns, words) ==
    IF text = << >> THEN text
    ELSE StripSet(NoSpaceBeforePunct(CollapseSpace(
             ApplyPatterns(patterns \o words, StripPreamble(Strip(text))))),
             { " ", "\n", "\t", "\r", "\"" })

(***************************************************************************)
(* The extractive selector.                                                *)
(***************************************************************************)
\* re.split(r'(?<=[.!?])\s+', s): s cut at every whitespace run that follows
\* one of . ! ?
RECURSIVE SplitAfterTermFrom(_, _)
SplitAfterTermFrom(s, start) ==
    LET cuts == { i \in (start + 1)..Len(s) : IsSpace(s[i]) /\ s[i - 1] \in TermPunct }
    IN  IF cuts = {} THEN << SubSeq(s, start, Len(s)) >>
        ELSE << SubSeq(s, start, MinOf(cuts) - 1) >>
                 \o SplitAfterTermFrom(s, SkipSpace(s, MinOf(cuts)))

SplitAfterTerm(s) == SplitAfterTermFrom(s, 1)

\* [p for line in text.splitlines() for p in line.split('\n')]: the lines of
\* s, without the empty ones (the caller drops every blank line anyway).
RECURSIVE SplitLinesFrom(_, _)
SplitLinesFrom(s, start) ==
    LET breaks == { i \in start..Len(s) : s[i] \in NewLines }
    IN  IF breaks = {}
        THEN IF start <= Len(s) THEN << SubSeq(s, start, Len(s)) >> ELSE << >>
        ELSE (IF start < MinOf(breaks) THEN << SubSeq(s, start, MinOf(breaks) - 1) >>
              ELSE << >>) \o SplitLinesFrom(s, MinOf(breaks) + 1)

SplitLines(s) == SplitLinesFrom(s, 1)

\* [p.strip() for p in parts if p.strip()]
RECURSIVE StripParts(_)
StripParts(parts) ==
    IF parts = << >> THEN << >>
    ELSE (IF Strip(Head(parts)) = << >> THEN << >> ELSE << Strip(Head(parts)) >>)
             \o StripParts(Tail(parts))

_split_sentences(text) ==
    IF text = << >> THEN << >>
    ELSE LET parts == SplitAfterTerm(Strip(text))
         IN  StripParts(IF Len(parts) = 1 THEN SplitLines(text) ELSE parts)

\* sorted(range(len(sims)), key=lambda i: sims[i], reverse=True): a stable
\* sort, so equal similarities keep their index order.
Ranked(sims) ==
    LET n == Len(sims)
        before(i) == Cardinality({ j \in 1..n : \/ sims[j] > sims[i]
                                                \/ sims[j] = sims[i] /\ j < i })
    IN  [ p \in 1..n |-> CHOOSE i \in 1..n : before(i) = p - 1 ]

\* sorted(idx): the members of a set of indices in increasing order.
RECURSIVE SortedSeq(_)
SortedSeq(S) ==
    IF S = {} THEN << >>
    ELSE LET m == CHOOSE x \in S : \A y \in S : x <= y
         IN  << m >> \o SortedSeq(S \ { m })

\* A variant that keeps the top of the ranking in rank order (no sorted()).
RankOrderSelected(ranked, max_sentences) ==
    LET k == IF max_sentences < Len(ranked) THEN max_sentences ELSE Len(ranked)
    IN  [ p \in 1..k |-> ranked[p] ]

\* selected_idx = sorted(ranked[:max_sentences]), for max_sentences >= 0.
SelectedIdx(ranked, max_sentences) ==
    LET k == IF max_sentences < Len(ranked) THEN max_sentences ELSE Len(ranked)
    IN  SortedSeq({ ranked[p] : p \in 1..k })

\* ' '.join([sentences[i] for i in idx])
RECURSIVE JoinSentences(_, _)
JoinSentences(sentences, idx) ==
    IF idx = << >> THEN << >>
    ELSE IF Len(idx) = 1 THEN sentences[idx[1]]
    ELSE sentences[idx[1]] \o << " " >> \o JoinSentences(sentences, Tail(idx))

\* get_model(): the model handle a call returns ("loaded" or "none"), the
\* cache after the call, and whether the call tried to load the model.
\* loadOk is whether SentenceTransformer(...) succeeds if it is tried.
get_model(cached, loadOk) ==
    IF cached = "none"
    THEN [ model |-> IF loadOk THEN "loaded" ELSE "none",
           cache |-> IF loadOk THEN "loaded" ELSE "none", tried |-> TRUE ]
    ELSE [ model |-> cached, cache |-> cached, tried |-> FALSE ]

\* The part of optimize_extractive after the model and the similarity
\* utility are there: the sentences, and how many the encoder must rank.
\* Returns the text, and the indices selected (none when no choice is made).
ExtractiveWithModel(text, max_sentences, sims) ==
    LET sentences == _split_sentences(text)
    IN  IF sentences = << >> THEN [ text |-> text, idx |-> << >> ]
        ELSE IF Len(sentences) = 1 THEN [ text |-> sentences[1], idx |-> << 1 >> ]
        ELSE LET idx == SelectedIdx(Ranked(sims), max_sentences)
             IN  [ text |-> JoinSentences(sentences, idx), idx |-> idx ]

\* The same part of the first pipeline's optimize_extractive
\* (compressor/technique2_extractive.py): no single-sentence shortcut.
ExtractiveWithModelLegacy(text, max_sentences, sims) ==
    LET sentences == _split_sentences(text)
    IN  IF sentences = << >> THEN [ text |-> text, idx |-> << >> ]
        ELSE LET idx == SelectedIdx(Ranked(sims), max_sentences)
             IN  [ text |-> JoinSentences(sentences, idx), idx |-> idx ]

\* A variant that, without a model, falls through to the first sentence
\* instead of returning the text.
FirstSentenceWithoutModel(text, max_sentences, model, utilOk, encodeOk, sims) ==
    LET sentences == _split_sentences(text)
        how == IF text = << >> THEN "empty"
               ELSE IF model = "none" THEN "no_model"
               ELSE IF ~utilOk THEN "no_util"
               ELSE IF Len(sentences) = 0 THEN "no_sentences"
               ELSE IF Len(sentences) = 1 THEN "one_sentence"
               ELSE IF encodeOk THEN "selected" ELSE "encoder_raised"
        res == IF how \in { "one_sentence", "selected" }
               THEN ExtractiveWithModel(text, max_sentences, sims)
               ELSE IF how \in { "no_model", "no_util" } /\ sentences # << >>
               THEN [ text |-> sentences[1], idx |-> << 1 >> ]
               ELSE [ text |-> text, idx |-> << >> ]
    IN  [ how |-> how, text |-> res.text, idx |-> res.idx ]

\* optimize_extractive(text, max_sentences) of core/extractive.py, given what
\* get_model() returned (model), whether sentence_transformers.util can be
\* imported (utilOk), whether the encoder calls succeed (encodeOk) and the
\* similarities they give (sims).  how names the statement the call leaves by.
optimize_extractive(text, max_sentences, model, utilOk, encodeOk, sims) ==
    LET n == Len(_split_sentences(text))
        how == IF text = << >> THEN "empty"
               ELSE IF model = "none" THEN "no_model"
               ELSE IF ~utilOk THEN "no_util"
               ELSE IF n = 0 THEN "no_sentences"
               ELSE IF n = 1 THEN "one_sentence"
               ELSE IF encodeOk THEN "selected" ELSE "encoder_raised"
        res == IF how \in { "one_sentence", "selected" }
               THEN ExtractiveWithModel(text, max_sentences, sims)
               ELSE [ text |-> text, idx |-> << >> ]
    IN  [ how |-> how, text |-> res.text, idx |-> res.idx ]

\* optimize_extractive(text, max_sentences) of
\* compressor/technique2_extractive.py, called with model=None: the import
\* and the construction of the model are one try block (model, utilOk).
optimize_extractive_legacy(text, max_sentences, model, utilOk, encodeOk, sims) ==
    LET n == Len(_split_sentences(text))
        how == IF text = << >> THEN "empty"
               ELSE IF model = "none" \/ ~utilOk THEN "no_model"
               ELSE IF n = 0 THEN "no_sentences"
               ELSE IF encodeOk THEN "selected" ELSE "encoder_raised"
        res == IF how = "selected"
               THEN ExtractiveWithModelLegacy(text, max_sentences, sims)
               ELSE [ text |-> text, idx |-> << >> ]
    IN  [ how |-> how, text |-> res.text, idx |-> res.idx ]

(***************************************************************************)
(* The aggressive fallback of run.                                         *)
(***************************************************************************)
FallbackWords ==
    << << "a", "n", "d" >>, << "f", "o", "r" >>, << "t", "h", "a", "t" >>,
       << "w", "h", "i", "c", "h" >>, << "p", "l", "e", "a", "s", "e" >>,
       << "i", "n", "c", "l", "u", "d", "e" >> >>

\* (and|for|that|which|please|include)\b matches at index j.
FallbackWordAt(s, j) ==
    \E k \in 1..Len(FallbackWords) :
        /\ MatchAtCI(s, j, FallbackWords[k])
        /\ LET e == j + Len(FallbackWords[k])
           IN  e > Len(s) \/ ~IsWordCh(s[e])

\* .*$ from index j: the end of the match, or 0 when a line break that is not
\* the last character stops it.
TailEnd(s, j) ==
    LET e == CHOOSE e \in j..(Len(s) + 1) :
                 /\ \A m \in j..(e - 1) : s[m] # "\n"
                 /\ e = Len(s) + 1 \/ s[e] = "\n"
    IN  IF e >= Len(s) THEN e ELSE 0

\* re.sub(r"[,;:\-]\s*(and|for|that|which|please|include)\b.*$", '', s, flags=re.I)
GenericStrip(s) ==
    LET hits == { i \in 1..Len(s) : /\ s[i] \in { ",", ";", ":", "-" }
                                    /\ FallbackWordAt(s, SkipSpace(s, i + 1))
                                    /\ TailEnd(s, SkipSpace(s, i + 1)) # 0 }
    IN  IF hits = {} THEN s
        ELSE Take(s, MinOf(hits) - 1)
                 \o SubSeq(s, TailEnd(s, SkipSpace(s, MinOf(hits) + 1)), Len(s))

\* A variant of the loop that accepts the first candidate of a valid pattern
\* without comparing token counts.
RECURSIVE AcceptWithoutCounting(_, _, _, _)
AcceptWithoutCounting(pats, cleaned, compressed_tokens, tried) ==
    IF pats = << >> THEN [ status |-> "none", text |-> << >>, tried |-> tried ]
    ELSE IF Head(pats).re = "nonstring"
         THEN [ status |-> "raised", text |-> << >>, tried |-> tried + 1 ]
    ELSE IF Head(pats).re = "invalid"
         THEN AcceptWithoutCounting(Tail(pats), cleaned, compressed_tokens, tried + 1)
    ELSE [ status |-> "accepted", text |-> tidy_text(SubPattern(Head(pats), cleaned)),
           tried |-> tried + 1 ]

\* The loop over the configured aggressive patterns: the candidate accepted
\* (status "accepted"), none ("none"), or the TypeError that re.sub raises on
\* an item that is not a string ("raised").  tried counts the patterns the
\* loop reached.
RECURSIVE AggressiveLoop(_, _, _, _)
AggressiveLoop(pats, cleaned, compressed_tokens, tried) ==
    IF pats = << >> THEN [ status |-> "none", text |-> << >>, tried |-> tried ]
    ELSE IF Head(pats).re = "nonstring"
         THEN [ status |-> "raised", text |-> << >>, tried |-> tried + 1 ]
    ELSE IF Head(pats).re = "invalid"
         THEN AggressiveLoop(Tail(pats), cleaned, compressed_tokens, tried + 1)
    ELSE LET candidate == tidy_text(SubPattern(Head(pats), cleaned))
         IN  IF token_count(candidate) < compressed_tokens
             THEN [ status |-> "accepted", text |-> candidate, tried |-> tried + 1 ]
             ELSE AggressiveLoop(Tail(pats), cleaned, compressed_tokens, tried + 1)

(***************************************************************************)
(* The validator.  Similarities are in hundredths.                         *)
(***************************************************************************)
MinSimilarity == 75

\* A variant that compares the texts as they are (no strip, no lower).
ExactEqualSimilarity(text1, text2) ==
    IF text1 = << >> \/ text2 = << >> THEN 0
    ELSE IF text1 = text2 THEN 100
    ELSE -1

\* calculate_semantic_similarity before it needs the model: the value it
\* returns at once, or -1 when it goes on to get_model().
ImmediateSimilarity(text1, text2) ==
    IF text1 = << >> \/ text2 = << >> THEN 0
    ELSE IF Lower(Strip(text1)) = Lower(Strip(text2)) THEN 100
    ELSE -1

\* A variant that scores a failure of the encoder as no similarity.
ErrorIsZeroSimilarity(model, encodeOk, cos) ==
    IF model = "none" THEN 0 ELSE IF encodeOk THEN cos ELSE 0

\* calculate_semantic_similarity once get_model() has returned `model`:
\* encodeOk is whether the import and the encoder calls succeed, cos the
\* cosine similarity they give.
EncodedSimilarity(model, encodeOk, cos) ==
    IF model = "none" THEN 100 ELSE IF encodeOk THEN cos ELSE 100

\* calculate_semantic_similarity(text1, text2)
calculate_semantic_similarity(text1, text2, model, encodeOk, cos) ==
    IF ImmediateSimilarity(text1, text2) # -1 THEN ImmediateSimilarity(text1, text2)
    ELSE EncodedSimilarity(model, encodeOk, cos)

\* A variant that runs the aggressive fallback whatever the counts.
AlwaysTriggered(compressed_tokens, cleaned_tokens) == TRUE

\* if compressed_tokens >= cleaned_tokens: the aggressive fallback runs.
FallbackTriggered(compressed_tokens, cleaned_tokens) ==
    compressed_tokens >= cleaned_tokens

(***************************************************************************)
(* The importance scorer and the smart reducer (core/smart_reduction.py).  *)
(* Scores are in hundredths, fractions in percent; the products of the     *)
(* source (n * 0.1, n * 0.9, n * target_reduction) are exact in IEEE       *)
(* doubles for every n up to 400, so integer arithmetic gives them.        *)
(***************************************************************************)
Max(a, b) == IF a >= b THEN a ELSE b

Min(a, b) == IF a <= b THEN a ELSE b

\* The first index of the \w run that ends at i.
RECURSIVE WordStart(_, _)
WordStart(s, i) == IF i > 1 /\ IsWordCh(s[i - 1]) THEN WordStart(s, i - 1) ELSE i

\* The apostrophe at i is inside a token of \w+'\w+: \w characters are on
\* both sides and the run before it is not itself the tail of such a token.
RECURSIVE InContraction(_, _)
InContraction(s, i) ==
    /\ s[i] = "'"
    /\ i > 1 /\ i < Len(s)
    /\ IsWordCh(s[i - 1]) /\ IsWordCh(s[i + 1])
    /\ LET b == WordStart(s, i - 1)
       IN  ~(b > 1 /\ InContraction(s, b - 1))

\* A token of re.findall(r"(\w+'\w+|\w+|[^\w\s]|\s+)", s) starts at i.
IsTokenStart(s, i) ==
    IF IsWordCh(s[i])
    THEN /\ i = 1 \/ ~IsWordCh(s[i - 1])
         /\ ~(i > 1 /\ InContraction(s, i - 1))
    ELSE IF IsSpace(s[i]) THEN i = 1 \/ ~IsSpace(s[i - 1])
    ELSE ~InContraction(s, i)

\* The last index of the token that starts at i.
TokenEnd(s, i) ==
    IF IsWordCh(s[i])
    THEN LET j == SkipWord(s, i)
         IN  IF j + 1 <= Len(s) /\ s[j] = "'" /\ IsWordCh(s[j + 1])
             THEN SkipWord(s, j + 1) - 1 ELSE j - 1
    ELSE IF IsSpace(s[i]) THEN SkipSpace(s, i) - 1
    ELSE i

\* _split_into_words(text): the tokens in order, each with is_word, which is
\* re.match(r"\w+('\w+)?", token): the token starts with a \w character.
_split_into_words(text) ==
    Flatten([ i \in 1..Len(text) |->
                IF IsTokenStart(text, i)
                THEN << [ tok |-> SubSeq(text, i, TokenEnd(text, i)),
                          is_word |-> IsWordCh(text[i]) ] >>
                ELSE << >> ])

\* re.findall(r'\b\w+\b', s): the maximal \w runs, in order.
WordRuns(s) ==
    Flatten([ i \in 1..Len(s) |->
                IF IsWordCh(s[i]) /\ (i = 1 \/ ~IsWordCh(s[i - 1]))
                THEN << SubSeq(s, i, SkipWord(s, i) - 1) >> ELSE << >> ])

\* _get_removable_words()
_get_removable_words ==
    { << "a" >>, << "a", "n" >>, << "t", "h", "e" >>, << "v", "e", "r", "y" >>,
      << "q", "u", "i", "t", "e" >>, << "r", "a", "t", "h", "e", "r" >>, << "s", "o", "m", "e", "w", "h", "a", "t" >>, << "f", "a", "i", "r", "l", "y" >>,
      << "o", "n" >>, << "i", "n" >>, << "a", "t" >>, << "o", "f" >>,
      << "i", "t" >>, << "t", "h", "i", "s" >>, << "t", "h", "a", "t" >> }

IMPERATIVE_VERBS ==
    { << "e", "x", "p", "l", "a", "i", "n" >>, << "s", "u", "m", "m", "a", "r", "i", "z", "e" >>, << "o", "u", "t", "l", "i", "n", "e" >>,
      << "l", "i", "s", "t" >>, << "c", "o", "m", "p", "a", "r", "e" >>, << "d", "r", "a", "f", "t" >>,
      << "p", "r", "o", "v", "i", "d", "e" >>, << "c", "l", "a", "s", "s", "i", "f", "y" >>, << "r", "e", "w", "r", "i", "t", "e" >>,
      << "c", "o", "n", "v", "e", "r", "t" >>, << "d", "e", "s", "i", "g", "n" >>, << "s", "u", "g", "g", "e", "s", "t" >>,
      << "a", "n", "a", "l", "y", "z", "e" >>, << "d", "e", "s", "c", "r", "i", "b", "e" >>, << "i", "d", "e", "n", "t", "i", "f", "y" >>,
      << "g", "i", "v", "e" >>, << "p", "r", "o", "d", "u", "c", "e" >> }

STRUCTURE_WORDS ==
    { << "c", "o", "v", "e", "r" >>, << "i", "n", "c", "l", "u", "d", "e" >>,
      << "o", "u", "t", "p", "u", "t" >>, << "f", "o", "r", "m", "a", "t" >> }

\* The suffixes of rule 5 of the scorer.
TechnicalSuffixes ==
    { << "t", "i", "o", "n" >>, << "m", "e", "n", "t" >>, << "n", "e", "s", "s" >>,
      << "i", "t", "y" >>, << "a", "n", "c", "e" >>, << "e", "n", "c", "e" >>,
      << "i", "z", "a", "t", "i", "o", "n" >> }

EndsWith(word, suf) ==
    /\ Len(suf) <= Len(word)
    /\ SubSeq(word, Len(word) - Len(suf) + 1, Len(word)) = suf

StartsWith(s, p) == Len(p) <= Len(s) /\ SubSeq(s, 1, Len(p)) = p

\* re.match(r'^\d+$', word)
IsNumber(word) == word # << >> /\ \A k \in 1..Len(word) : word[k] \in DigitSet

\* re.match(r'^\d+[a-z]+$', word)
IsNumberWithUnit(word) ==
    \E d \in 1..(Len(word) - 1) :
        /\ \A k \in 1..d : word[k] \in DigitSet
        /\ \A k \in (d + 1)..Len(word) : word[k] \in LowerSet

\* A \w run that r'\b[A-Z][A-Za-z0-9]*\b' matches: it starts with a capital
\* and holds no underscore (the pattern cannot match a part of a run).
IsCapitalizedRun(run) ==
    /\ run[1] \in UpperSet
    /\ \A k \in 1..Len(run) : run[k] # "_"

\* _get_word_importance_scores(text): the score of every word of the text,
\* the rules applied in the order of the source.
_get_word_importance_scores(text) ==
    LET words_in_text == WordRuns(Lower(text))
        n == Len(words_in_text)
        runs == WordRuns(text)
        capitalized == { Lower(runs[k]) : k \in { j \in 1..Len(runs) : IsCapitalizedRun(runs[j]) } }
        removable == _get_removable_words
        first_six == { words_in_text[k] : k \in 1..Min(6, n) }
        word_freq(word) == Cardinality({ k \in 1..n : words_in_text[k] = word })
        baseline(word) == 70
        low(word) == IF word \in removable THEN 20 ELSE baseline(word)
        rule1(word) == IF word = words_in_text[1] /\ word \in IMPERATIVE_VERBS
                       THEN 100 ELSE low(word)
        rule2(word) == IF word \in STRUCTURE_WORDS THEN 95 ELSE rule1(word)
        rule3(word) == IF word \in capitalized THEN 90 ELSE rule2(word)
        rule4(word) == IF IsNumber(word) \/ IsNumberWithUnit(word) THEN 95 ELSE rule3(word)
        rule5(word) == IF \E suf \in TechnicalSuffixes : EndsWith(word, suf)
                       THEN Max(rule4(word), 85) ELSE rule4(word)
        rule6(word) == IF word \in first_six /\ word \notin removable
                       THEN Max(rule5(word), 85) ELSE rule5(word)
        rule7(word) == IF word_freq(word) >= 2 /\ word \notin removable
                       THEN Max(rule6(word), 90) ELSE rule6(word)
    IN  [ word \in { words_in_text[k] : k \in 1..n } |-> rule7(word) ]

QuestionWords ==
    { << "w", "h", "a", "t" >>, << "h", "o", "w" >>, << "w", "h", "y" >>,
      << "w", "h", "e", "n" >>, << "w", "h", "e", "r", "e" >>, << "w", "h", "o" >>,
      << "w", "h", "i", "c", "h" >>, << "w", "h", "o", "s", "e" >> }

Negations ==
    { << "n", "o", "t" >>, << "n", "o" >>, << "n", "e", "v", "e", "r" >>,
      << "n", "o", "n", "e" >>, << "n", "e", "i", "t", "h", "e", "r" >>, << "n", "o", "b", "o", "d", "y" >>,
      << "n", "o", "t", "h", "i", "n", "g" >>, << "n", "'", "t" >> }

\* The characters of file paths, e-mail addresses and the like.
SpecialChars == { "_", "-", "@", ".", "/" }

\* str.isupper(): a cased character, and no lower-case one.
IsUpper(word) ==
    /\ \E k \in 1..Len(word) : word[k] \in UpperSet
    /\ \A k \in 1..Len(word) : word[k] \notin LowerSet

\* _is_important_word(word, pos_in_sentence)
_is_important_word(word, pos_in_sentence) ==
    \/ Lower(word) \in QuestionWords
    \/ pos_in_sentence = "first" /\ Lower(word) \in IMPERATIVE_VERBS
    \/ Lower(word) \in STRUCTURE_WORDS
    \/ Lower(word) \in Negations
    \/ EndsWith(word, << "n", "'", "t" >>)
    \/ IsNumber(word)
    \/ word[1] \in UpperSet /\ pos_in_sentence = "middle"
    \/ Len(word) >= 2 /\ IsUpper(word)
    \/ \E k \in 1..Len(word) : word[k] \in SpecialChars

\* len(text.split())
WordCount(text) ==
    Cardinality({ i \in 1..Len(text) :
                    ~IsSpace(text[i]) /\ (i = 1 \/ IsSpace(text[i - 1])) })

\* The word counts at which the adaptive target changes.
ShortWords == 30

LongWords == 80

VeryLongWords == 150

\* A variant in which a text of exactly 80 words already gets the 20%.
TargetReductionFrom80(text, target_reduction) ==
    IF WordCount(text) > VeryLongWords THEN 18
    ELSE IF WordCount(text) >= LongWords THEN 20
    ELSE IF WordCount(text) < ShortWords THEN 15
    ELSE target_reduction

\* The adaptive target, in percent, from the word count of the text.
TargetReduction(text, target_reduction) ==
    IF WordCount(text) > VeryLongWords THEN 18
    ELSE IF WordCount(text) > LongWords THEN 20
    ELSE IF WordCount(text) < ShortWords THEN 15
    ELSE target_reduction

\* The prefixes that make a text a question.
QuestionStarts ==
    { << "w", "h", "a", "t" >>, << "h", "o", "w" >>, << "w", "h", "y" >>,
      << "w", "h", "e", "n" >>, << "w", "h", "e", "r", "e" >>, << "w", "h", "o" >>,
      << "w", "h", "i", "c", "h" >> }

\* is_question
IsQuestion(text) ==
    \/ Strip(text) # << >> /\ Strip(text)[Len(Strip(text))] = "?"
    \/ \E q \in QuestionStarts : StartsWith(Lower(text), q)

\* The indices (from 1) of the word tokens.
WordTokens(tokens) == { i \in 1..Len(tokens) : tokens[i].is_word }

\* pos: the tenth of the token list a token (index from 1) is in.
PosOf(i, ntokens) ==
    IF 10 * (i - 1) < ntokens THEN "first"
    ELSE IF 10 * (i - 1) > 9 * ntokens THEN "last"
    ELSE "middle"

MaxOf(S) == CHOOSE x \in S : \A y \in S : y <= x

\* words_to_keep: the word tokens that are important, and the last word
\* token of a question.
WordsToKeep(text, preserve_question_structure) ==
    LET tokens == _split_into_words(text)
        words == WordTokens(tokens)
    IN  { i \in words :
            \/ _is_important_word(tokens[i].tok, PosOf(i, Len(tokens)))
            \/ /\ IsQuestion(text) /\ preserve_question_structure
               /\ i = MaxOf(words) }

\* word_scores.get(word.lower(), 0.5)
ScoreOf(word_scores, word) ==
    IF Lower(word) \in DOMAIN word_scores THEN word_scores[Lower(word)] ELSE 50

\* int(total_words * target_reduction)
TargetRemoveCount(text, target_reduction) ==
    (Cardinality(WordTokens(_split_into_words(text)))
         * TargetReduction(text, target_reduction)) \div 100

\* words_to_remove: of the word tokens not kept, sorted by score (a stable
\* sort), the first target_remove_count.
WordsToRemove(text, target_reduction, preserve_question_structure) ==
    LET tokens == _split_into_words(text)
        word_scores == _get_word_importance_scores(text)
        keep == WordsToKeep(text, preserve_question_structure)
        candidates == WordTokens(tokens) \ keep
        score == [ i \in candidates |-> ScoreOf(word_scores, tokens[i].tok) ]
        before(i) == Cardinality({ j \in candidates :
                                     \/ score[j] < score[i]
                                     \/ score[j] = score[i] /\ j < i })
        target_remove_count == TargetRemoveCount(text, target_reduction)
    IN  { i \in candidates : before(i) < target_remove_count }

Separators == { << ":" >>, << "," >>, << ";" >> }

\* kept_tokens: the word tokens not removed; of the other tokens only a
\* colon, comma or semicolon, and only when the last token kept before it is
\* a word (so a kept word precedes it with no separator in between).
KeptTokens(tokens, words_to_remove) ==
    LET keptWord(i) == tokens[i].is_word /\ i \notin words_to_remove
        sep(i) == ~tokens[i].is_word /\ tokens[i].tok \in Separators
        keptSep(i) == /\ sep(i)
                      /\ \E j \in 1..(i - 1) :
                            /\ keptWord(j)
                            /\ \A k \in (j + 1)..(i - 1) : ~keptWord(k) /\ ~sep(k)
    IN  Flatten([ i \in 1..Len(tokens) |->
                    IF keptWord(i) \/ keptSep(i) THEN << tokens[i].tok >> ELSE << >> ])

\* ' '.join(kept_tokens)
JoinWithSpaces(kept_tokens) ==
    Flatten([ i \in 1..Len(kept_tokens) |->
                IF i = 1 THEN kept_tokens[i] ELSE << " " >> \o kept_tokens[i] ])

\* re.sub(r'([.,!?;:])\s*([.,!?;:])', r'\1', s): of two punctuation
\* characters with only whitespace between them the first is left.
RECURSIVE DropDuplicatePunctFrom(_, _)
DropDuplicatePunctFrom(s, i) ==
    LET hits == { j \in i..Len(s) :
                    /\ s[j] \in Punct
                    /\ SkipSpace(s, j + 1) <= Len(s)
                    /\ s[SkipSpace(s, j + 1)] \in Punct }
    IN  IF hits = {} THEN SubSeq(s, i, Len(s))
        ELSE SubSeq(s, i, MinOf(hits))
                 \o DropDuplicatePunctFrom(s, SkipSpace(s, MinOf(hits) + 1) + 1)

DropDuplicatePunct(s) == DropDuplicatePunctFrom(s, 1)

\* re.sub(r'([.,!?;:])([a-zA-Z])', r'\1 \2', s)
SpaceBeforeLetter(s) ==
    Flatten([ i \in 1..Len(s) |->
                IF s[i] \in Punct /\ i + 1 <= Len(s) /\ IsLetter(s[i + 1])
                THEN << s[i], " " >> ELSE << s[i] >> ])

\* The words at which the main content is taken to start.
Openers ==
    { << "O", "n", "e" >>, << "T", "h", "e" >>, << "T", "h", "a", "t" >>,
      << "D", "i", "f", "f", "e", "r", "e", "n", "t" >>, << "S", "o", "u", "r", "c", "e", "s" >>, << "I" >> }

\* The index after one match of \w+\'?\w*\s+ at i; 0 if there is none.
FragmentEnd(s, i) ==
    IF i < 1 \/ i > Len(s) \/ ~IsWordCh(s[i]) THEN 0
    ELSE LET j == SkipWord(s, i)
             k == IF j <= Len(s) /\ s[j] = "'" THEN SkipWord(s, j + 1) ELSE j
         IN  IF k <= Len(s) /\ IsSpace(s[k]) THEN SkipSpace(s, k) ELSE 0

\* The index after r matches in a row from the start; 0 if there are fewer.
RECURSIVE AfterFragments(_, _)
AfterFragments(s, r) ==
    IF r = 0 THEN 1 ELSE FragmentEnd(s, AfterFragments(s, r - 1))

\* re.sub(r'^(?:\w+\'?\w*\s+){1,6}(One|The|That|Different|Sources|I)', r'\1', s):
\* the most leading words, up to six, that an opener follows are removed.
StripLeadingFragments(s) ==
    LET fits == { r \in 1..6 :
                    /\ AfterFragments(s, r) # 0
                    /\ \E o \in Openers :
                          StartsWith(Drop(s, AfterFragments(s, r) - 1), o) }
    IN  IF fits = {} THEN s ELSE Drop(s, AfterFragments(s, MaxOf(fits)) - 1)

\* r'\b(Cover)\s+(?=[A-Za-z0-9])' matches at i.
CoverAt(s, i) ==
    /\ i >= 1
    /\ StartsWith(Drop(s, i - 1), << "C", "o", "v", "e", "r" >>)
    /\ i = 1 \/ ~IsWordCh(s[i - 1])
    /\ i + 5 <= Len(s) /\ IsSpace(s[i + 5])
    /\ SkipSpace(s, i + 5) <= Len(s)
    /\ s[SkipSpace(s, i + 5)] \in LowerSet \cup UpperSet \cup DigitSet

\* The first index of the whitespace run that ends at i.
RECURSIVE SpaceStart(_, _)
SpaceStart(s, i) == IF i > 1 /\ IsSpace(s[i - 1]) THEN SpaceStart(s, i - 1) ELSE i

\* re.sub(r'\b(Cover)\s+(?=[A-Za-z0-9])', r'\1: ', s)
CoverColon(s) ==
    Flatten([ i \in 1..Len(s) |->
                IF IsSpace(s[i]) /\ CoverAt(s, SpaceStart(s, i) - 5)
                THEN (IF i = SpaceStart(s, i) THEN << ":", " " >> ELSE << >>)
                ELSE << s[i] >> ])

\* result[0].upper() + result[1:]
CapitalizeFirst(s) == IF s = << >> THEN s ELSE << UpperCh(s[1]) >> \o Tail(s)

\* The clean-up of the rebuilt text, the steps in the order of the source.
CleanUp(result) ==
    Strip(CapitalizeFirst(CoverColon(StripLeadingFragments(
        SpaceBeforeLetter(DropDuplicatePunct(NoSpaceBeforePunct(CollapseSpace(result))))))))

\* The text as rebuilt from the tokens kept, before the clean-up.
Rebuilt(text, target_reduction, preserve_question_structure) ==
    JoinWithSpaces(KeptTokens(_split_into_words(text),
        WordsToRemove(text, target_reduction, preserve_question_structure)))

\* optimize_smart_reduction(text, target_reduction, preserve_question_structure)
optimize_smart_reduction(text, target_reduction, preserve_question_structure) ==
    IF text = << >> \/ Strip(text) = << >> THEN text
    ELSE IF WordTokens(_split_into_words(text)) = {} THEN text
    ELSE CleanUp(Rebuilt(text, target_reduction, preserve_question_structure))

(***************************************************************************)
(* The inputs: prompts, filler configurations, encoder answers.            *)
(***************************************************************************)
\* A prompt is at most MaxChunks of these pieces, one after the other.
MaxChunks == 3

PromptChunks ==
    { << "p", "l", "e", "a", "s", "e", " " >>,
      << "a" >>,
      << " ", "b" >>,
      << ".", " " >>,
      << ",", "1" >>,
      << ",", " ", "a", "n", "d", " ", "d" >> }

RECURSIVE Concats(_, _)
Concats(chunks, n) ==
    IF n = 0 THEN { << >> }
    ELSE LET prev == Concats(chunks, n - 1)
         IN  prev \cup { p \o c : p \in prev, c \in chunks }

RECURSIVE Repeat(_, _)
Repeat(t, n) == IF n = 0 THEN << >> ELSE t \o Repeat(t, n - 1)

\* The token count from which run keeps two sentences instead of one.
LongPromptTokens == 60

\* A prompt of at least LongPromptTokens tokens, of three sentences: in
\* "1-1-...-" every character is a token.
LongPrompts ==
    { Repeat(<< "1", "-" >>, LongPromptTokens \div 2)
          \o << "b", ".", " ", "a", "?", " ", "d", "." >> }

Prompts == Concats(PromptChunks, MaxChunks) \cup LongPrompts

\* A field of the configuration document: absent, a list, or a number.
Absent == [ shape |-> "absent", items |-> << >> ]

List(items) == [ shape |-> "list", items |-> items ]

Number == [ shape |-> "number", items |-> << >> ]

\* data.get(key, []) for a field: the list, [] for an absent key.
Items(f) == f.items

Doc(p, w, a) == [ file |-> "ok", patterns |-> p, words |-> w, aggressive |-> a ]

NoDoc(why) == [ file |-> why, patterns |-> Absent, words |-> Absent, aggressive |-> Absent ]

\* config/fillers.json: absent, not JSON, JSON that is no object, or an object
\* whose fields are as documented or not.
Configs ==
    { NoDoc("missing"), NoDoc("invalid_json"), NoDoc("not_object"),
      Doc(Absent, Absent, Absent),
      Doc(List(<< Lit(<< " ", "b" >>) >>), List(<< InvalidPattern, Lit(<< "A" >>) >>), Absent),
      Doc(Absent, List(<< >>),
          List(<< InvalidPattern, Lit(<< "z" >>), Lit(<< ",", "1" >>), Lit(<< "a" >>) >>)),
      Doc(Number, Absent, Absent),
      Doc(Absent, List(<< Lit(<< "a" >>), NonStringItem >>), Absent),
      Doc(Absent, Absent, Number),
      Doc(Absent, Absent, List(<< Lit(<< "z" >>), NonStringItem >>)) }

\* What the encoder's cosine similarity may be for a sentence (ranking).
RankVals == { 10, 50, 90 }

\* What it may be for the two texts of the validator.
CosVals == { 0, 75, 100 }

(***************************************************************************)
(* The state.                                                              *)
(***************************************************************************)
VARIABLES
    pc,             \* where the run is
    prompt,         \* the argument of run
    original,       \* prompt.strip()
    config,         \* the filler configuration file
    cleaned,        \* after the filler remover and tidy_text
    num_sentences,  \* max_sentences handed to optimize_extractive
    variant,        \* "core" (prompt_compressor) or "legacy" (compressor)
    sims,           \* the similarities the encoder gave, << >> if not asked
    selected_idx,   \* the sentences optimize_extractive selected
    extracted,      \* what optimize_extractive returned
    extractHow,     \* the return statement optimize_extractive left by
    stage2,         \* compressed right after the extractive stage and tidy
    compressed,     \* the compressed text
    fallback,       \* what the aggressive fallback did
    cachedModel,    \* _CACHED_MODEL: "none" or "loaded"
    loadAttempts,   \* how often SentenceTransformer(...) was constructed
    modelCalls,     \* how often get_model() was called
    encoderCalls,   \* how often the encoder was asked for embeddings
    similarity,     \* the validator's similarity, in hundredths
    is_valid,       \* the validator's verdict
    validateHow,    \* the return statement calculate_semantic_similarity left by
    encoderDown,    \* during that call the encoder was unavailable or failing
    printed,        \* what run printed
    raised,         \* the exception that left run, or "none"
    t_in,           \* tidy_text: the argument
    t_once,         \* tidy_text(t_in)
    t_twice,        \* tidy_text(tidy_text(t_in))
    r_text,         \* optimize_smart_reduction: the argument
    r_target,       \* its argument target_reduction, in percent
    r_scores,       \* word_scores: what _get_word_importance_scores returned
    r_kept,         \* kept_tokens
    r_marked,       \* the indices of the word tokens it marked for removal
    r_rebuilt,      \* the text it rebuilt from the tokens kept
    r_out,          \* what it returned
    rb_text,        \* optimize_rule_based: the text
    rb_patterns,    \* its patterns
    rb_words,       \* its words
    rb_out,         \* what it returned
    rb_raised       \* the exception that left it, or "none"

pipeVars == << prompt, original, config, cleaned, num_sentences, variant, sims,
               selected_idx, extracted, extractHow, stage2, compressed, fallback,
               cachedModel, loadAttempts, modelCalls, encoderCalls, similarity,
               is_valid, validateHow, encoderDown, printed, raised >>

\* The variables of the specifications of single functions.
tidyVars == << t_in, t_once, t_twice >>

redVars == << r_text, r_target, r_scores, r_marked, r_kept, r_rebuilt, r_out >>

rbVars == << rb_text, rb_patterns, rb_words, rb_out, rb_raised >>

funVars == << tidyVars, redVars, rbVars >>

vars == << pc, pipeVars, funVars >>

NoFallback == [ attempted |-> FALSE, tried |-> 0, accepted |-> "none", generic |-> FALSE ]

\* The variables of the functions before they are applied.
RedIdle ==
    /\ r_text = << >> /\ r_target = 20 /\ r_scores = << >>
    /\ r_marked = {} /\ r_kept = << >> /\ r_rebuilt = << >> /\ r_out = << >>

RbIdle ==
    /\ rb_text = << >> /\ rb_patterns = << >> /\ rb_words = << >>
    /\ rb_out = << >> /\ rb_raised = "none"

TidyIdle == t_in = << >> /\ t_once = << >> /\ t_twice = << >>

FunIdle == TidyIdle /\ RedIdle /\ RbIdle

\* The variables of a run that its stages have not set yet.
StagesIdle ==
    /\ sims = << >> /\ selected_idx = << >> /\ extracted = << >>
    /\ extractHow = "not_run" /\ stage2 = << >> /\ fallback = NoFallback
    /\ loadAttempts = 0 /\ modelCalls = 0 /\ encoderCalls = 0
    /\ similarity = -1 /\ is_valid = FALSE /\ validateHow = "not_run"
    /\ encoderDown = FALSE /\ printed = << >> /\ raised = "none"

(***************************************************************************)
(* run (prompt_compressor/main.py), one action per stage.                  *)
(***************************************************************************)
Init ==
    /\ pc = "start"
    /\ prompt \in Prompts
    /\ config \in Configs
    /\ original = << >> /\ cleaned = << >> /\ compressed = << >>
    /\ num_sentences = 1 /\ variant = "core" /\ cachedModel = "none"
    /\ StagesIdle
    /\ FunIdle

\* if not original: print('No prompt provided.'); return
NoPrompt ==
    /\ pc = "start"
    /\ Strip(prompt) = << >>
    /\ original' = Strip(prompt)
    /\ printed' = << "No prompt provided." >>
    /\ pc' = "done"
    /\ UNCHANGED << prompt, config, cleaned, num_sentences, variant, sims,
                    selected_idx, extracted, extractHow, stage2, compressed,
                    fallback, cachedModel, loadAttempts, modelCalls, encoderCalls,
                    similarity, is_valid, validateHow, encoderDown, raised, funVars >>

\* read_fillers raises: the file is missing (read_text), is not JSON
\* (json.loads) or holds no object (data.get); run prints and returns.
ReadFillersFails ==
    /\ pc = "start"
    /\ Strip(prompt) # << >>
    /\ config.file # "ok"
    /\ original' = Strip(prompt)
    /\ printed' = << "Missing or invalid config/fillers.json." >>
    /\ pc' = "done"
    /\ UNCHANGED << prompt, config, cleaned, num_sentences, variant, sims,
                    selected_idx, extracted, extractHow, stage2, compressed,
                    fallback, cachedModel, loadAttempts, modelCalls, encoderCalls,
                    similarity, is_valid, validateHow, encoderDown, raised, funVars >>

\* read_fillers returns data.get('patterns', []), data.get('words', []),
\* whatever they are.
ReadFillers ==
    /\ pc = "start"
    /\ Strip(prompt) # << >>
    /\ config.file = "ok"
    /\ original' = Strip(prompt)
    /\ pc' = "rule"
    /\ UNCHANGED << prompt, config, cleaned, num_sentences, variant, sims,
                    selected_idx, extracted, extractHow, stage2, compressed,
                    fallback, cachedModel, loadAttempts, modelCalls, encoderCalls,
                    similarity, is_valid, validateHow, encoderDown, printed, raised,
                    funVars >>

HasNonString(items) == \E k \in 1..Len(items) : items[k].re = "nonstring"

\* optimize_rule_based raises TypeError: patterns + words with a number, or
\* re.sub on an item that is not a string.
RuleBasedTypeError(cfg) ==
    \/ cfg.patterns.shape = "number"
    \/ cfg.words.shape = "number"
    \/ HasNonString(Items(cfg.patterns) \o Items(cfg.words))

RuleBasedRaises ==
    /\ pc = "rule"
    /\ RuleBasedTypeError(config)
    /\ raised' = "TypeError"
    /\ pc' = "raised"
    /\ UNCHANGED << prompt, original, config, cleaned, num_sentences, variant, sims,
                    selected_idx, extracted, extractHow, stage2, compressed,
                    fallback, cachedModel, loadAttempts, modelCalls, encoderCalls,
                    similarity, is_valid, validateHow, encoderDown, printed, funVars >>

\* cleaned = tidy_text(optimize_rule_based(original, patterns, words))
\* num_sentences = 2 if token_count(original) >= 60 else 1
RuleBased ==
    /\ pc = "rule"
    /\ ~RuleBasedTypeError(config)
    /\ cleaned' = tidy_text(optimize_rule_based(original, Items(config.patterns),
                                                Items(config.words)))
    /\ num_sentences' = IF token_count(original) >= LongPromptTokens THEN 2 ELSE 1
    /\ pc' = "extract"
    /\ UNCHANGED << prompt, original, config, variant, sims,
                    selected_idx, extracted, extractHow, stage2, compressed,
                    fallback, cachedModel, loadAttempts, modelCalls, encoderCalls,
                    similarity, is_valid, validateHow, encoderDown, printed, raised,
                    funVars >>

SeqOf(f, n) == [ i \in 1..n |-> f[i] ]

\* compressed = optimize_extractive(cleaned, max_sentences=num_sentences)
\* compressed = tidy_text(compressed)
\* loadOk: SentenceTransformer(...) succeeds if tried; utilOk: the import of
\* sentence_transformers.util succeeds; encodeOk: model.encode and cos_sim do.
Extractive ==
    /\ pc = "extract"
    /\ variant = "core"
    /\ \E loadOk \in BOOLEAN, utilOk \in BOOLEAN, encodeOk \in BOOLEAN :
       \E sv \in [ 1..Len(_split_sentences(cleaned)) -> RankVals ] :
         LET g == get_model(cachedModel, loadOk)
             r == optimize_extractive(cleaned, num_sentences, g.model, utilOk, encodeOk,
                                      SeqOf(sv, Len(_split_sentences(cleaned))))
         IN  /\ extractHow' = r.how
             /\ cachedModel' = IF r.how = "empty" THEN cachedModel ELSE g.cache
             /\ modelCalls' = IF r.how = "empty" THEN modelCalls ELSE modelCalls + 1
             /\ loadAttempts' = IF r.how # "empty" /\ g.tried
                                THEN loadAttempts + 1 ELSE loadAttempts
             /\ encoderCalls' = IF r.how \in { "selected", "encoder_raised" }
                                THEN encoderCalls + 1 ELSE encoderCalls
             /\ sims' = IF r.how = "selected"
                        THEN SeqOf(sv, Len(_split_sentences(cleaned))) ELSE << >>
             /\ IF r.how = "encoder_raised"
                THEN /\ raised' = "EncoderError"
                     /\ pc' = "raised"
                     /\ UNCHANGED << selected_idx, extracted, stage2, compressed >>
                ELSE /\ selected_idx' = r.idx
                     /\ extracted' = r.text
                     /\ stage2' = tidy_text(r.text)
                     /\ compressed' = tidy_text(r.text)
                     /\ pc' = "fallback"
                     /\ UNCHANGED raised
    /\ UNCHANGED << prompt, original, config, cleaned, num_sentences, variant,
                    fallback, similarity, is_valid, validateHow, encoderDown, printed,
                    funVars >>

\* The same stage of the first pipeline (main.py): optimize_extractive of
\* compressor/technique2_extractive.py constructs the model on every call
\* and keeps no cache; tidy_text is the first pipeline's.
ExtractiveLegacy ==
    /\ pc = "extract"
    /\ variant = "legacy"
    /\ \E loadOk \in BOOLEAN, encodeOk \in BOOLEAN :
       \E sv \in [ 1..Len(_split_sentences(cleaned)) -> RankVals ] :
         LET r == optimize_extractive_legacy(cleaned, num_sentences,
                      IF loadOk THEN "loaded" ELSE "none", TRUE, encodeOk,
                      SeqOf(sv, Len(_split_sentences(cleaned))))
         IN  /\ extractHow' = r.how
             /\ loadAttempts' = IF r.how = "empty" THEN loadAttempts ELSE loadAttempts + 1
             /\ encoderCalls' = IF r.how \in { "selected", "encoder_raised" }
                                THEN encoderCalls + 1 ELSE encoderCalls
             /\ sims' = IF r.how = "selected"
                        THEN SeqOf(sv, Len(_split_sentences(cleaned))) ELSE << >>
             /\ IF r.how = "encoder_raised"
                THEN /\ raised' = "EncoderError"
                     /\ pc' = "raised"
                     /\ UNCHANGED << selected_idx, extracted, stage2, compressed >>
                ELSE /\ selected_idx' = r.idx
                     /\ extracted' = r.text
                     /\ stage2' = tidy_text_legacy(r.text)
                     /\ compressed' = tidy_text_legacy(r.text)
                     /\ pc' = "fallback"
                     /\ UNCHANGED raised
    /\ UNCHANGED << prompt, original, config, cleaned, num_sentences, variant,
                    fallback, cachedModel, modelCalls, similarity, is_valid,
                    validateHow, encoderDown, printed, funVars >>

\* if compressed_tokens >= cleaned_tokens: is false; the fallback is skipped.
SkipFallback ==
    /\ pc = "fallback"
    /\ ~FallbackTriggered(token_count(compressed), token_count(cleaned))
    /\ pc' = "validate"
    /\ UNCHANGED << pipeVars, funVars >>

\* The fallback raises TypeError: `for pat in aggressive_patterns` over a
\* number, or re.sub on an item that is not a string (only re.error is caught).
FallbackTypeError ==
    \/ config.aggressive.shape = "number"
    \/ AggressiveLoop(Items(config.aggressive), cleaned, token_count(compressed), 0).status
           = "raised"

FallbackRaises ==
    /\ pc = "fallback"
    /\ FallbackTriggered(token_count(compressed), token_count(cleaned))
    /\ FallbackTypeError
    /\ fallback' = [ attempted |-> TRUE, tried |-> 0, accepted |-> "none", generic |-> FALSE ]
    /\ raised' = "TypeError"
    /\ pc' = "raised"
    /\ UNCHANGED << prompt, original, config, cleaned, num_sentences, variant, sims,
                    selected_idx, extracted, extractHow, stage2, compressed,
                    cachedModel, loadAttempts, modelCalls, encoderCalls,
                    similarity, is_valid, validateHow, encoderDown, printed, funVars >>

\* The aggressive fallback: the configured patterns in order, the first
\* candidate with fewer tokens wins; else the generic trailing-clause strip.
Fallback ==
    /\ pc = "fallback"
    /\ FallbackTriggered(token_count(compressed), token_count(cleaned))
    /\ ~FallbackTypeError
    /\ LET loop == AggressiveLoop(Items(config.aggressive), cleaned,
                                  token_count(compressed), 0)
           candidate == tidy_text(GenericStrip(cleaned))
       IN  IF loop.status = "accepted"
           THEN /\ compressed' = loop.text
                /\ fallback' = [ attempted |-> TRUE, tried |-> loop.tried,
                                 accepted |-> "pattern", generic |-> FALSE ]
           ELSE IF token_count(candidate) < token_count(compressed)
           THEN /\ compressed' = candidate
                /\ fallback' = [ attempted |-> TRUE, tried |-> loop.tried,
                                 accepted |-> "generic", generic |-> TRUE ]
           ELSE /\ compressed' = compressed
                /\ fallback' = [ attempted |-> TRUE, tried |-> loop.tried,
                                 accepted |-> "none", generic |-> TRUE ]
    /\ pc' = "validate"
    /\ UNCHANGED << prompt, original, config, cleaned, num_sentences, variant, sims,
                    selected_idx, extracted, extractHow, stage2,
                    cachedModel, loadAttempts, modelCalls, encoderCalls,
                    similarity, is_valid, validateHow, encoderDown, printed, raised,
                    funVars >>

\* is_valid, similarity = validate_compression(original, compressed, 0.75)
\* loadOk: SentenceTransformer(...) succeeds if tried; encodeOk: the import of
\* util, model.encode and cos_sim succeed; cos: the cosine they give.
Validate ==
    /\ pc = "validate"
    /\ \E loadOk \in BOOLEAN, encodeOk \in BOOLEAN, cos \in CosVals :
         LET imm == ImmediateSimilarity(original, compressed)
             g == get_model(cachedModel, loadOk)
             sim == calculate_semantic_similarity(original, compressed, g.model,
                                                  encodeOk, cos)
         IN  /\ similarity' = sim
             /\ is_valid' = (sim >= MinSimilarity)
             /\ validateHow' = IF original = << >> \/ compressed = << >> THEN "empty"
                               ELSE IF imm # -1 THEN "equal"
                               ELSE IF g.model = "none" THEN "no_model"
                               ELSE IF encodeOk THEN "encoded" ELSE "encoder_failed"
             /\ encoderDown' = (g.model = "none" \/ ~encodeOk)
             /\ cachedModel' = IF imm # -1 THEN cachedModel ELSE g.cache
             /\ modelCalls' = IF imm # -1 THEN modelCalls ELSE modelCalls + 1
             /\ loadAttempts' = IF imm = -1 /\ g.tried THEN loadAttempts + 1
                                ELSE loadAttempts
             /\ encoderCalls' = IF imm = -1 /\ g.model = "loaded"
                                THEN encoderCalls + 1 ELSE encoderCalls
    /\ pc' = "report"
    /\ UNCHANGED << prompt, original, config, cleaned, num_sentences, variant, sims,
                    selected_idx, extracted, extractHow, stage2, compressed,
                    fallback, printed, raised, funVars >>

\* The metrics, the compressed prompt and, if the validation failed, the warning.
Report ==
    /\ pc = "report"
    /\ printed' = << "CAPO Metrics", "Compressed Prompt" >>
                      \o (IF is_valid THEN << >> ELSE << "WARNING" >>)
    /\ pc' = "done"
    /\ UNCHANGED << prompt, original, config, cleaned, num_sentences, variant, sims,
                    selected_idx, extracted, extractHow, stage2, compressed,
                    fallback, cachedModel, loadAttempts, modelCalls, encoderCalls,
                    similarity, is_valid, validateHow, encoderDown, raised, funVars >>

Next ==
    \/ NoPrompt
    \/ ReadFillersFails
    \/ ReadFillers
    \/ RuleBasedRaises
    \/ RuleBased
    \/ Extractive
    \/ SkipFallback
    \/ FallbackRaises
    \/ Fallback
    \/ Validate
    \/ Report

Spec == Init /\ [][Next]_vars

(***************************************************************************)
(* tidy_text applied once and twice to a string.                           *)
(***************************************************************************)
MaxTidyChunks == 4

TidyChunks ==
    { << "y", "o", "u", " ", "c", "o", "u", "l", "d", " " >>,
      << "a" >>, << " " >>, << "." >>, << "," >>, << "!" >>, << "-" >> }

\* The pipeline's variables in a specification of one function.
PipeUnused ==
    /\ prompt = << >> /\ original = << >> /\ config = Doc(Absent, Absent, Absent)
    /\ cleaned = << >> /\ compressed = << >> /\ num_sentences = 1
    /\ cachedModel = "none"
    /\ StagesIdle

Tidy(v, s) == IF v = "core" THEN tidy_text(s) ELSE tidy_text_legacy(s)

InitTidy ==
    /\ pc = "tidy"
    /\ variant \in { "core", "legacy" }
    /\ t_in \in Concats(TidyChunks, MaxTidyChunks)
    /\ t_once = << >> /\ t_twice = << >>
    /\ RedIdle /\ RbIdle
    /\ PipeUnused

\* t_once = tidy_text(t_in)
TidyOnce ==
    /\ pc = "tidy"
    /\ t_once' = Tidy(variant, t_in)
    /\ pc' = "tidied"
    /\ UNCHANGED << pipeVars, redVars, rbVars, t_in, t_twice >>

\* t_twice = tidy_text(t_once)
TidyTwice ==
    /\ pc = "tidied"
    /\ t_twice' = Tidy(variant, t_once)
    /\ pc' = "tidied_twice"
    /\ UNCHANGED << pipeVars, redVars, rbVars, t_in, t_once >>

NextTidy == TidyOnce \/ TidyTwice

SpecTidy == InitTidy /\ [][NextTidy]_vars

(***************************************************************************)
(* optimize_extractive applied to a text, in both pipelines.               *)
(***************************************************************************)
MaxExChunks == 3

MaxSentencesArg == 3

ExChunks ==
    { << "a", ".", " " >>, << "b", "!", "\n" >>, << "c", "?" >> }

InitExtractive ==
    /\ pc = "extract"
    /\ variant \in { "core", "legacy" }
    /\ cleaned \in Concats(ExChunks, MaxExChunks)
    /\ num_sentences \in 0..MaxSentencesArg
    /\ cachedModel = "none"
    /\ prompt = << >> /\ original = << >> /\ config = Doc(Absent, Absent, Absent)
    /\ compressed = << >>
    /\ StagesIdle
    /\ FunIdle

NextExtractive == Extractive \/ ExtractiveLegacy

SpecExtractive == InitExtractive /\ [][NextExtractive]_vars

(***************************************************************************)
(* validate_compression applied to two texts.                              *)
(***************************************************************************)
MaxValChunks == 2

ValChunks == { << "a" >>, << "A" >>, << " " >>, << "b" >> }

InitValidator ==
    /\ pc = "validate"
    /\ original \in Concats(ValChunks, MaxValChunks)
    /\ compressed \in Concats(ValChunks, MaxValChunks)
    /\ cachedModel \in { "none", "loaded" }
    /\ prompt = << >> /\ config = Doc(Absent, Absent, Absent)
    /\ cleaned = << >> /\ num_sentences = 1 /\ variant = "core"
    /\ StagesIdle
    /\ FunIdle

NextValidator == Validate

SpecValidator == InitValidator /\ [][NextValidator]_vars

(***************************************************************************)
(* optimize_smart_reduction applied to a text, with its default arguments. *)
(***************************************************************************)
\* The prompt of the scenario:
\* "Could you please explain, very briefly, how climate change affects coral reefs?"
ScenarioPrompt ==
    << "C", "o", "u", "l", "d", " ", "y", "o", "u", " ", "p", "l",
       "e", "a", "s", "e", " ", "e", "x", "p", "l", "a", "i", "n",
       ",", " ", "v", "e", "r", "y", " ", "b", "r", "i", "e", "f",
       "l", "y", ",", " ", "h", "o", "w", " ", "c", "l", "i", "m",
       "a", "t", "e", " ", "c", "h", "a", "n", "g", "e", " ", "a",
       "f", "f", "e", "c", "t", "s", " ", "c", "o", "r", "a", "l",
       " ", "r", "e", "e", "f", "s", "?" >>

MaxReducerChunks == 3

ReducerChunks ==
    { << "n", "o", "t", " " >>, << "T", "h", "e", " " >>, << "x", " " >>,
      << "h", "o", "w", " " >>, << "5", " " >>, << "a", "_", "b", " " >>,
      << "d", "o", "n", "'", "t", " " >>, << "?" >> }

\* Five words, so that with two more the reducer has a word to remove.
ReducerBase ==
    << "s", "e", "n", "d", " ", "v", "e", "r", "y", " ", "x", " ",
       "o", "f", " ", "b", " " >>

ReducerTexts ==
    Concats(ReducerChunks, MaxReducerChunks)
        \cup { ReducerBase \o t : t \in Concats(ReducerChunks, MaxReducerChunks - 1) }
        \cup { ScenarioPrompt }

\* target_reduction: float = 0.20, in percent.
DefaultTargetReduction == 20

\* What a caller may pass as target_reduction, in percent.
Targets == { DefaultTargetReduction, 50 }

\* Texts for the scores: capitalized and plain imperative verbs, structural
\* keywords and removable words.
MaxScoreChunks == 2

ScoreChunks ==
    { << "L", "i", "s", "t", " " >>, << "l", "i", "s", "t", " " >>,
      << "C", "o", "v", "e", "r", " " >>, << "c", "o", "v", "e", "r", " " >>,
      << "T", "h", "e", " " >>, << "o", "f", " " >> }

ScoreTexts == Concats(ScoreChunks, MaxScoreChunks)

\* How far from those word counts the texts below go.
MaxMargin == 1

\* A text of n words: n - 2 times the filler, then "very of".
WordsText(filler, n) ==
    Flatten([ i \in 1..(n - 2) |-> filler ])
        \o << "v", "e", "r", "y", " ", "o", "f" >>

ThresholdTexts ==
    { WordsText(filler, t + d) :
        filler \in { << "x", " " >>, << "5", " " >> },
        t \in { ShortWords, LongWords, VeryLongWords },
        d \in (0 - MaxMargin)..MaxMargin }

InitReducer ==
    /\ pc = "reduce"
    /\ \/ r_text \in ReducerTexts \cup ScoreTexts /\ r_target = DefaultTargetReduction
       \/ r_text \in ThresholdTexts /\ r_target \in Targets
    /\ r_scores = << >> /\ r_marked = {} /\ r_kept = << >>
    /\ r_rebuilt = << >> /\ r_out = << >>
    /\ TidyIdle /\ RbIdle
    /\ variant = "core"
    /\ PipeUnused

\* The call returns the text as it is: it is empty or blank (line 226), or
\* holds no word token (line 250).
ReducerReturnsText(text) ==
    \/ Strip(text) = << >>
    \/ WordTokens(_split_into_words(text)) = {}

\* r_out = optimize_smart_reduction(r_text, r_target)
Reduce ==
    /\ pc = "reduce"
    /\ r_scores' = IF ReducerReturnsText(r_text) THEN << >>
                   ELSE _get_word_importance_scores(r_text)
    /\ r_marked' = IF ReducerReturnsText(r_text) THEN {}
                   ELSE WordsToRemove(r_text, r_target, TRUE)
    /\ r_kept' = IF ReducerReturnsText(r_text) THEN << >>
                 ELSE KeptTokens(_split_into_words(r_text), r_marked')
    /\ r_rebuilt' = IF ReducerReturnsText(r_text) THEN r_text
                    ELSE JoinWithSpaces(r_kept')
    /\ r_out' = optimize_smart_reduction(r_text, r_target, TRUE)
    /\ pc' = "reduced"
    /\ UNCHANGED << pipeVars, tidyVars, rbVars, r_text, r_target >>

NextReducer == Reduce

SpecReducer == InitReducer /\ [][NextReducer]_vars

(***************************************************************************)
(* optimize_rule_based applied to a text and two lists.                    *)
(***************************************************************************)
MaxRbChunks == 2

MaxPatterns == 2

RbChunks == { << "a" >>, << " ", "b" >>, << "p", "l", "e", "a", "s", "e", " " >> }

\* What a list of the configuration may hold.
RbItems == { Lit(<< "a" >>), Lit(<< " ", "b" >>), InvalidPattern, NonStringItem }

RECURSIVE ListsOf(_, _)
ListsOf(items, n) ==
    IF n = 0 THEN { << >> }
    ELSE LET prev == ListsOf(items, n - 1)
         IN  prev \cup { l \o << x >> : l \in prev, x \in items }

InitRuleBased ==
    /\ pc = "rule_call"
    /\ rb_text \in Concats(RbChunks, MaxRbChunks) \cup { ScenarioPrompt }
    /\ rb_patterns \in ListsOf(RbItems, MaxPatterns)
    /\ rb_words \in { << >> } \cup { << x >> : x \in RbItems }
    /\ rb_out = << >> /\ rb_raised = "none"
    /\ TidyIdle /\ RedIdle
    /\ variant = "core"
    /\ PipeUnused

\* rb_out = optimize_rule_based(rb_text, rb_patterns, rb_words), with only
\* lists of strings.
RuleBasedReturns ==
    /\ pc = "rule_call"
    /\ rb_text = << >> \/ ~HasNonString(rb_patterns \o rb_words)
    /\ rb_out' = optimize_rule_based(rb_text, rb_patterns, rb_words)
    /\ pc' = "rule_done"
    /\ UNCHANGED << pipeVars, tidyVars, redVars, rb_text, rb_patterns, rb_words, rb_raised >>

\* re.sub raises TypeError on an item that is not a string; except re.error
\* does not catch it.
RuleBasedCallRaises ==
    /\ pc = "rule_call"
    /\ rb_text # << >> /\ HasNonString(rb_patterns \o rb_words)
    /\ rb_raised' = "TypeError"
    /\ pc' = "rule_done"
    /\ UNCHANGED << pipeVars, tidyVars, redVars, rb_text, rb_patterns, rb_words, rb_out >>

NextRuleBased == RuleBasedReturns \/ RuleBasedCallRaises

SpecRuleBased == InitRuleBased /\ [][NextRuleBased]_vars

(***************************************************************************)
(* The properties.                                                         *)
(***************************************************************************)

\* A word token the reducer is to keep whatever its score: a question word,
\* a negation, a number, or a token with one of _ - @ . /
HardPreserved(word) ==
    \/ Lower(word) \in QuestionWords
    \/ Lower(word) \in Negations
    \/ EndsWith(Lower(word), << "n", "'", "t" >>)
    \/ IsNumber(word)
    \/ \E k \in 1..Len(word) : word[k] \in SpecialChars

\* The word tokens of a text, in lower case.
WordsOf(text) ==
    { Lower(_split_into_words(text)[i].tok) : i \in WordTokens(_split_into_words(text)) }

\* C1: the text optimize_smart_reduction returns still holds every
\* hard-preserved word token of its input (compared in lower case): none is
\* lost in the marking, the rebuild or the clean-up.
C1_HardPreservedSurvive ==
    pc = "reduced" =>
        \A word \in WordsOf(r_text) : HardPreserved(word) => word \in WordsOf(r_out)

\* C2: tidy_text is idempotent: applied to its own result, it returns that
\* result, for every string (both pipelines' tidy_text).
C2_TidyIdempotent ==
    pc = "tidied_twice" => t_twice = t_once

\* The stages of a run that has got as far as a given text.
HasCleaned == pc \in { "extract", "fallback", "validate", "report" }

HasStage2 == pc \in { "fallback", "validate", "report" }

HasFinal == pc \in { "validate", "report" }

\* C3: in a run the token count never increases from a stage to the next:
\* original >= cleaned >= after the extractive stage >= after the fallback.
C3_TokensNeverIncrease ==
    /\ HasCleaned => token_count(cleaned) <= token_count(original)
    /\ HasStage2 => token_count(stage2) <= token_count(cleaned)
    /\ HasFinal => token_count(compressed) <= token_count(stage2)

\* C4: when the encoder ranks n >= 2 sentences, optimize_extractive returns
\* min(max_sentences, n) of them, none less similar to the text than one it
\* leaves out, joined by single spaces in the order of the source text.
C4_TopSentencesInSourceOrder ==
    (extractHow = "selected" /\ Len(_split_sentences(cleaned)) >= 2) =>
        LET sentences == _split_sentences(cleaned)
            n == Len(sentences)
            k == Len(selected_idx)
            chosen == { selected_idx[p] : p \in 1..k }
        IN  /\ k = IF num_sentences < n THEN num_sentences ELSE n
            /\ chosen \subseteq 1..n
            /\ \A p \in 1..(k - 1) : selected_idx[p] < selected_idx[p + 1]
            /\ \A i \in chosen : \A j \in (1..n) \ chosen : sims[i] >= sims[j]
            /\ extracted = JoinSentences(sentences, selected_idx)

\* C4's case: two of three sentences are kept, the later one ranked first,
\* and they come out in source order.
C4_Witness ==
    /\ extractHow = "selected"
    /\ Len(sims) = 3
    /\ num_sentences = 2
    /\ selected_idx = << 1, 3 >>
    /\ sims[3] > sims[1]
    /\ sims[1] > sims[2]

\* C5: in one process the load of the sentence-embedding model is attempted
\* at most once, whether it succeeds or fails.
C5_LoadAttemptedAtMostOnce ==
    loadAttempts <= 1

\* C6: when the encoder is unavailable or its call fails, the validator
\* gives similarity 1.0 and is_valid = True for every two non-empty texts.
C6_EncoderDownIsValid ==
    (validateHow # "not_run" /\ encoderDown /\ original # << >> /\ compressed # << >>)
        => (similarity = 100 /\ is_valid)

\* C6 as the specification states it: for every pair of texts, an empty
\* compressed text included.
C6_EncoderDownIsValidAnyTexts ==
    (validateHow # "not_run" /\ encoderDown) => (similarity = 100 /\ is_valid)

\* C6's case: the validator went to the encoder, which was not there or
\* failed, and the compression is taken as valid.
C6_Witness ==
    /\ validateHow \in { "no_model", "encoder_failed" }
    /\ encoderDown
    /\ similarity = 100
    /\ is_valid

\* C7: for two non-empty texts equal under strip and lower,
\* calculate_semantic_similarity returns 1.0 without calling get_model or
\* the encoder.
C7_EqualTextsAreOne ==
    (/\ validateHow # "not_run"
     /\ original # << >> /\ compressed # << >>
     /\ Lower(Strip(original)) = Lower(Strip(compressed)))
        => (similarity = 100 /\ modelCalls = 0 /\ encoderCalls = 0 /\ loadAttempts = 0)

\* C7 as the specification states it: for every two texts equal under strip
\* and lower, the empty text included.
C7_EqualTextsAreOneAnyTexts ==
    (validateHow # "not_run" /\ Lower(Strip(original)) = Lower(Strip(compressed)))
        => (similarity = 100 /\ modelCalls = 0 /\ encoderCalls = 0 /\ loadAttempts = 0)

\* C7's case: two different texts that strip and lower make equal.
C7_Witness ==
    /\ validateHow = "equal"
    /\ original # compressed
    /\ similarity = 100
    /\ modelCalls = 0

\* C8: when the model does not load or the similarity utility cannot be
\* imported, optimize_extractive returns its input unchanged and does not
\* raise.
C8_NoModelReturnsInput ==
    extractHow \in { "no_model", "no_util" }
        => (extracted = cleaned /\ raised = "none" /\ pc = "fallback")

\* C8's case: a text of several sentences comes back whole.
C8_Witness ==
    /\ extractHow = "no_model"
    /\ variant = "core"
    /\ Len(_split_sentences(cleaned)) >= 2
    /\ extracted = cleaned

\* C9: the aggressive fallback is attempted only when the extractive stage
\* left no fewer tokens than the rule-based stage; when it left fewer, the
\* final text is the tidied extractive output.
C9_FallbackOnlyWhenStalled ==
    /\ fallback.attempted => token_count(stage2) >= token_count(cleaned)
    /\ (HasFinal /\ token_count(stage2) < token_count(cleaned))
           => (~fallback.attempted /\ compressed = tidy_text(extracted))

\* C9's case: the extractive stage dropped a sentence and the run went on to
\* validation with that text.
C9_Witness ==
    /\ pc = "report"
    /\ extractHow = "selected"
    /\ token_count(stage2) < token_count(cleaned)
    /\ ~fallback.attempted
    /\ compressed = stage2

\* A filler configuration that is missing or not of the documented shape:
\* an object of three optional lists of strings.
Malformed(cfg) ==
    \/ cfg.file # "ok"
    \/ \E f \in { cfg.patterns, cfg.words, cfg.aggressive } :
           f.shape = "number" \/ HasNonString(Items(f))

\* C10: with a missing or malformed filler configuration, run prints the
\* failure message and ends: it raises nothing and prints no metrics and no
\* compressed text.
C10_BadConfigIsReported ==
    Malformed(config) =>
        /\ raised = "none"
        /\ pc = "done" => printed \in { << "No prompt provided." >>,
                                        << "Missing or invalid config/fillers.json." >> }

\* The patterns of a list that compile.
RECURSIVE ValidOnly(_)
ValidOnly(pats) ==
    IF pats = << >> THEN << >>
    ELSE (IF Head(pats).re = "invalid" THEN << >> ELSE << Head(pats) >>)
             \o ValidOnly(Tail(pats))

\* C11: an invalid regex is skipped and nothing else: for lists of strings
\* optimize_rule_based does not raise and returns what it returns for the
\* lists without their invalid patterns, so the valid patterns after an
\* invalid one are applied, patterns first, then words.
C11_InvalidPatternSkipped ==
    (pc = "rule_done" /\ ~HasNonString(rb_patterns \o rb_words)) =>
        /\ rb_raised = "none"
        /\ rb_out = optimize_rule_based(rb_text, ValidOnly(rb_patterns), ValidOnly(rb_words))

\* C11's case: an invalid pattern comes first, and the pattern and the word
\* after it are both removed from the text.
C11_Witness ==
    /\ pc = "rule_done"
    /\ rb_text = << "a", " ", "b" >>
    /\ rb_patterns = << InvalidPattern, Lit(<< "a" >>) >>
    /\ rb_words = << Lit(<< " ", "b" >>) >>
    /\ rb_out = << >>

\* The scenario's prompt without its leading "Could you ".
ScenarioWithoutPreamble == SubSeq(ScenarioPrompt, 11, Len(ScenarioPrompt))

\* C12: with no patterns and no words the filler remover returns the
\* scenario's prompt without its leading "Could you ": the preamble goes,
\* the rest, "please" included, stays.
C12_ScenarioLosesPreamble ==
    (/\ pc = "rule_done" /\ rb_text = ScenarioPrompt
     /\ rb_patterns = << >> /\ rb_words = << >>)
        => (rb_raised = "none" /\ rb_out = ScenarioWithoutPreamble)

\* C12 as the specification states it: the prompt is returned unchanged.
C12_ScenarioUnchanged ==
    (/\ pc = "rule_done" /\ rb_text = ScenarioPrompt
     /\ rb_patterns = << >> /\ rb_words = << >>)
        => rb_out = rb_text

\* C12's case: the filler remover has run on the scenario's prompt with
\* empty lists.
C12_Witness ==
    /\ pc = "rule_done" /\ rb_text = ScenarioPrompt
    /\ rb_patterns = << >> /\ rb_words = << >>
    /\ Take(rb_out, 6) = << "p", "l", "e", "a", "s", "e" >>
    /\ rb_out[Len(rb_out)] = "?"

\* C13: on the scenario's prompt, with default arguments, the reducer
\* removes both "please" and "very", and its result still holds "how",
\* "climate", "change", "coral" and "reefs" and ends with "?".
C13_ScenarioReduced ==
    (pc = "reduced" /\ r_text = ScenarioPrompt) =>
        /\ << "p", "l", "e", "a", "s", "e" >> \notin WordsOf(r_out)
        /\ << "v", "e", "r", "y" >> \notin WordsOf(r_out)
        /\ { << "h", "o", "w" >>, << "c", "l", "i", "m", "a", "t", "e" >>,
             << "c", "h", "a", "n", "g", "e" >>, << "c", "o", "r", "a", "l" >>,
             << "r", "e", "e", "f", "s" >> } \subseteq WordsOf(r_out)
        /\ r_out # << >> /\ r_out[Len(r_out)] = "?"

\* The k-th configured aggressive pattern gives a candidate with strictly
\* fewer tokens than the text the extractive stage left.
PatternHelps(k) ==
    /\ Items(config.aggressive)[k].re = "lit"
    /\ token_count(tidy_text(SubPattern(Items(config.aggressive)[k], cleaned)))
           < token_count(stage2)

\* C14: once the fallback has run, the final text is the candidate of the
\* first configured pattern that lowers the token count (later patterns are
\* not tried, nor the generic strip), else the generic strip of the cleaned
\* text if that lowers the count, else the text of the extractive stage; the
\* final token count is never above the count after the extractive stage.
C14_OneReplacementAtMost ==
    (HasFinal /\ fallback.attempted) =>
        /\ fallback.accepted = "pattern" =>
               /\ fallback.tried \in 1..Len(Items(config.aggressive))
               /\ PatternHelps(fallback.tried)
               /\ \A j \in 1..(fallback.tried - 1) : ~PatternHelps(j)
               /\ compressed = tidy_text(SubPattern(Items(config.aggressive)[fallback.tried],
                                                    cleaned))
               /\ ~fallback.generic
        /\ fallback.accepted # "pattern" =>
               /\ fallback.tried = Len(Items(config.aggressive))
               /\ \A j \in 1..Len(Items(config.aggressive)) : ~PatternHelps(j)
               /\ fallback.generic
        /\ fallback.accepted = "generic" =>
               /\ compressed = tidy_text(GenericStrip(cleaned))
               /\ token_count(compressed) < token_count(stage2)
        /\ fallback.accepted = "none" =>
               /\ compressed = stage2
               /\ token_count(tidy_text(GenericStrip(cleaned))) >= token_count(stage2)
        /\ token_count(compressed) <= token_count(stage2)

\* C14's case: a configured pattern was accepted after an earlier valid one
\* had been tried and had not lowered the count.
C14_Witness ==
    /\ pc = "report"
    /\ fallback.attempted /\ fallback.accepted = "pattern"
    /\ fallback.tried >= 2
    /\ \E j \in 1..(fallback.tried - 1) : Items(config.aggressive)[j].re = "lit"
    /\ token_count(compressed) < token_count(stage2)

\* The word tokens of the reducer's input that are not in the keep-set.
Candidates ==
    WordTokens(_split_into_words(r_text)) \ WordsToKeep(r_text, TRUE)

\* The scores the reducer looked up for the word tokens at the indices in S.
ScoresAt(S) == { ScoreOf(r_scores, _split_into_words(r_text)[i].tok) : i \in S }

\* The words marked are min(floor(W * f / 100), C) of the candidates, and
\* none of those left has a lower score than one that is marked.
MarkedByFraction(f) ==
    LET candidates == Candidates
    IN  /\ r_marked \subseteq candidates
        /\ Cardinality(r_marked)
               = Min((Cardinality(WordTokens(_split_into_words(r_text))) * f) \div 100,
                     Cardinality(candidates))
        /\ \A a \in ScoresAt(r_marked) : \A b \in ScoresAt(candidates \ r_marked) :
               a <= b

\* C15: the reducer marks min(floor(W * f), C) words, the candidates of the
\* lowest scores, where f is 0.18 for more than 150 words, 0.20 for more
\* than 80 and at most 150, 0.15 for fewer than 30, and the caller's
\* target_reduction from 30 to 80 words, 80 included.
C15_MarkedCount ==
    (pc = "reduced" /\ ~ReducerReturnsText(r_text)) =>
        MarkedByFraction(IF WordCount(r_text) > VeryLongWords THEN 18
                         ELSE IF WordCount(r_text) > LongWords THEN 20
                         ELSE IF WordCount(r_text) < ShortWords THEN 15
                         ELSE r_target)

\* C15 as the specification states it: 0.20 from 80 words on.
C15_MarkedCountFrom80 ==
    (pc = "reduced" /\ ~ReducerReturnsText(r_text)) =>
        MarkedByFraction(IF WordCount(r_text) > VeryLongWords THEN 18
                         ELSE IF WordCount(r_text) >= LongWords THEN 20
                         ELSE IF WordCount(r_text) < ShortWords THEN 15
                         ELSE r_target)

\* C15's case: a text of exactly 80 words reduced with a target of 50%;
\* 40 of its words are marked.
C15_Witness ==
    /\ pc = "reduced"
    /\ WordCount(r_text) = LongWords
    /\ r_target = 50
    /\ Cardinality(Candidates) = LongWords
    /\ Cardinality(r_marked) = 40

\* C16: every removable word of the text has the final score 0.2 in the
\* mapping _get_word_importance_scores returns: no boost rule raises it.
C16_RemovableStaysLow ==
    pc = "reduced" =>
        \A word \in DOMAIN r_scores :
            word \in _get_removable_words => r_scores[word] = 20

\* The words of the text that occur in it with a capital first letter, in
\* lower case.
CapitalizedWords(text) ==
    { Lower(WordRuns(text)[k]) :
        k \in { j \in 1..Len(WordRuns(text)) : IsCapitalizedRun(WordRuns(text)[j]) } }

\* C17: the boost rules combine by maximum: an imperative verb that is the
\* first word of the text ends at 1.0, a structural keyword at 0.95 or
\* more, and a word that occurs capitalized at 0.9 or more.
C17_BoostsCombineByMax ==
    (pc = "reduced" /\ ~ReducerReturnsText(r_text)) =>
        /\ WordRuns(Lower(r_text))[1] \in IMPERATIVE_VERBS
               => r_scores[WordRuns(Lower(r_text))[1]] = 100
        /\ \A word \in DOMAIN r_scores :
               /\ word \in STRUCTURE_WORDS => r_scores[word] >= 95
               /\ word \in CapitalizedWords(r_text) => r_scores[word] >= 90

\* The tokens the rebuild keeps if it only filters: every word token that
\* is not marked, and every punctuation token, but a separator that would
\* come right after a separator already kept.
FilteredTokens(tokens, words_to_remove) ==
    LET keptWord(i) == tokens[i].is_word /\ i \notin words_to_remove
        punct(i) == ~tokens[i].is_word /\ ~IsSpace(tokens[i].tok[1])
        sep(i) == punct(i) /\ tokens[i].tok \in Separators
        afterSep(i) == \E j \in 1..(i - 1) :
                          /\ sep(j)
                          /\ \A k \in (j + 1)..(i - 1) :
                                 ~keptWord(k) /\ (punct(k) => sep(k))
    IN  Flatten([ i \in 1..Len(tokens) |->
                    IF \/ keptWord(i)
                       \/ punct(i) /\ ~sep(i)
                       \/ sep(i) /\ ~afterSep(i)
                    THEN << tokens[i].tok >> ELSE << >> ])

\* C18: the rebuild only filters the tokens: the tokens it keeps are, in
\* the order of the text, the word tokens not marked and every punctuation
\* token ('.', '!' and '?' too), but a separator right after a kept one.
C18_RebuildOnlyFilters ==
    (pc = "reduced" /\ ~ReducerReturnsText(r_text)) =>
        r_kept = FilteredTokens(_split_into_words(r_text), r_marked)

====
